---- MODULE Spec2Model ----
(***************************************************************************)
(* A model of src/app.py: the YouTube note-taker's request handler         *)
(* (index), the URL resolver (extract_video_id), the transcript acquirer   *)
(* (fetch_transcript_text), the completion client (call_openai) and the    *)
(* reply parser (parse_sections).                                          *)
(*                                                                         *)
(* Python strings are modelled as sequences of one-character strings, so   *)
(* that strip, split, lower, startswith and the regular expressions are    *)
(* computed character by character as the code computes them.              *)
(***************************************************************************)
EXTENDS Integers, Sequences, FiniteSets, TLC

VARIABLES
    pc,               \* position of the running handler / function
    method,           \* request.method
    form_url,         \* request.form["video_url"] as submitted
    video_url,        \* local of index(): the submitted URL, stripped
    api_key,          \* os.environ.get("OPENAI_API_KEY"): None or a string
    context,          \* the template context of index()
    response,         \* "none", "page" (render_template) or "unhandled"
    raised,           \* class of the exception that left the handler, or "none"
    video_id,         \* local of index(): result of extract_video_id
    transcripts,      \* local of fetch_transcript_text: the listed transcripts
    transcript,       \* local of fetch_transcript_text: the transcript chosen
    transcript_text,  \* local of index(): result of fetch_transcript_text
    video_title,      \* local of index(): result of fetch_video_title
    ai_output,        \* local of index(): result of call_openai
    trace,            \* history: the calls made so far, in order
    text,             \* parse_sections: its argument
    lines,            \* parse_sections: text.splitlines()
    lineNo,           \* parse_sections: number of lines consumed by the loop
    current,          \* parse_sections: the cursor
    sections,         \* parse_sections: the three lists
    parse_result,     \* parse_sections: the returned triple, or None
    entries,          \* fetch_transcript_text: transcript.fetch()
    urlParts,         \* the pieces the argument of extract_video_id is made of
    url,              \* extract_video_id: its argument
    resolved          \* extract_video_id: its outcome, or None

vars == << pc, method, form_url, video_url, api_key, context, response, raised, video_id,
           transcripts, transcript, transcript_text, video_title, ai_output,
           trace, text, lines, lineNo, current, sections, parse_result,
           entries,
           urlParts, url, resolved >>

\* Python's None, and a value that is not None
None == [some |-> FALSE]
Some(v) == [some |-> TRUE, val |-> v]


(* Python str primitives over sequences of characters *)

S2Seq(str) == [i \in 1..Len(str) |-> SubSeq(str, i, i)]

Chars(str) == {SubSeq(str, i, i) : i \in 1..Len(str)}

\* str.isspace() characters that occur in the inputs
Whitespace == {" ", "\t", "\n", "\r"}

UpperLetters == "ABCDEFGHIJKLMNOPQRSTUVWXYZ"
LowerLetters == "abcdefghijklmnopqrstuvwxyz"
Digits == "0123456789"

LowerChar(c) ==
    IF \E i \in 1..26 : SubSeq(UpperLetters, i, i) = c
    THEN LET i == CHOOSE j \in 1..26 : SubSeq(UpperLetters, j, j) = c
         IN SubSeq(LowerLetters, i, i)
    ELSE c

\* str.lower()
Lower(s) == [i \in 1..Len(s) |-> LowerChar(s[i])]

\* str.lstrip(chars)
LStripChars(s, set) ==
    IF \A i \in 1..Len(s) : s[i] \in set THEN <<>>
    ELSE LET k == CHOOSE j \in 1..Len(s) :
                      s[j] \notin set /\ \A i \in 1..(j-1) : s[i] \in set
         IN SubSeq(s, k, Len(s))

\* str.rstrip(chars)
RStripChars(s, set) ==
    IF \A i \in 1..Len(s) : s[i] \in set THEN <<>>
    ELSE LET k == CHOOSE j \in 1..Len(s) :
                      s[j] \notin set /\ \A i \in (j+1)..Len(s) : s[i] \in set
         IN SubSeq(s, 1, k)

\* str.strip()
Strip(s) == RStripChars(LStripChars(s, Whitespace), Whitespace)

\* str.startswith(p)
StartsWith(s, p) == Len(s) >= Len(p) /\ SubSeq(s, 1, Len(p)) = p

\* p occurs in s at position i
OccursAt(s, p, i) == i + Len(p) - 1 <= Len(s) /\ SubSeq(s, i, i + Len(p) - 1) = p

\* p in s
Contains(s, p) == \E i \in 1..(Len(s) + 1) : OccursAt(s, p, i)

\* str.find(c) + 1: position of the first c, 0 when there is none
Find(s, c) ==
    IF \E i \in 1..Len(s) : s[i] = c
    THEN CHOOSE i \in 1..Len(s) : s[i] = c /\ \A j \in 1..(i-1) : s[j] # c
    ELSE 0

\* str.split(c, 1)
SplitOnce(s, c) ==
    LET i == Find(s, c)
    IN IF i = 0 THEN << s >>
       ELSE << SubSeq(s, 1, i - 1), SubSeq(s, i + 1, Len(s)) >>

\* str.split(c)
RECURSIVE Split(_, _)
Split(s, c) ==
    LET i == Find(s, c)
    IN IF i = 0 THEN << s >>
       ELSE << SubSeq(s, 1, i - 1) >> \o Split(SubSeq(s, i + 1, Len(s)), c)

\* sep.join(parts)
RECURSIVE Join(_, _)
Join(sep, parts) ==
    IF parts = <<>> THEN <<>>
    ELSE IF Len(parts) = 1 THEN parts[1]
    ELSE parts[1] \o sep \o Join(sep, Tail(parts))

\* str.splitlines(): boundaries \n, \r and \r\n, no empty last line
RECURSIVE SplitLines(_)
SplitLines(s) ==
    IF s = <<>> THEN <<>>
    ELSE IF \A i \in 1..Len(s) : s[i] \notin {"\n", "\r"} THEN << s >>
    ELSE LET i == CHOOSE j \in 1..Len(s) :
                      /\ s[j] \in {"\n", "\r"}
                      /\ \A k \in 1..(j-1) : s[k] \notin {"\n", "\r"}
             e == IF s[i] = "\r" /\ i < Len(s) /\ s[i+1] = "\n" THEN i + 1 ELSE i
         IN << SubSeq(s, 1, i - 1) >> \o SplitLines(SubSeq(s, e + 1, Len(s)))


(* urllib.parse as used by extract_video_id *)

SchemeChars == Chars(UpperLetters) \cup Chars(LowerLetters) \cup Chars(Digits)
                   \cup {"+", "-", "."}

Letters == Chars(UpperLetters) \cup Chars(LowerLetters)

\* position of the first character of s, from position from on, that is in
\* set; Len(s) + 1 when there is none
FirstOf(s, set, from) ==
    IF \E i \in from..Len(s) : s[i] \in set
    THEN CHOOSE i \in from..Len(s) :
             s[i] \in set /\ \A j \in from..(i-1) : s[j] \notin set
    ELSE Len(s) + 1

\* urlparse(s): scheme, netloc, path, query, fragment and the derived hostname
\* (inputs carry no ';' parameters, no userinfo and no bracketed hosts)
urlparse(s) ==
    LET colon == Find(s, ":")
        hasScheme == /\ colon > 1
                     /\ s[1] \in Letters
                     /\ \A i \in 1..(colon - 1) : s[i] \in SchemeChars
        scheme == IF hasScheme THEN Lower(SubSeq(s, 1, colon - 1)) ELSE <<>>
        rest1 == IF hasScheme THEN SubSeq(s, colon + 1, Len(s)) ELSE s
        hasNetloc == StartsWith(rest1, << "/", "/" >>)
        delim == FirstOf(rest1, {"/", "?", "#"}, 3)
        netloc == IF hasNetloc THEN SubSeq(rest1, 3, delim - 1) ELSE <<>>
        rest2 == IF hasNetloc THEN SubSeq(rest1, delim, Len(rest1)) ELSE rest1
        hash == Find(rest2, "#")
        fragment == IF hash > 0 THEN SubSeq(rest2, hash + 1, Len(rest2)) ELSE <<>>
        rest3 == IF hash > 0 THEN SubSeq(rest2, 1, hash - 1) ELSE rest2
        qm == Find(rest3, "?")
        query == IF qm > 0 THEN SubSeq(rest3, qm + 1, Len(rest3)) ELSE <<>>
        path == IF qm > 0 THEN SubSeq(rest3, 1, qm - 1) ELSE rest3
    IN [ scheme |-> scheme, netloc |-> netloc, path |-> path, query |-> query,
         fragment |-> fragment,
         \* the empty hostname stands for Python's None
         hostname |-> Lower(SplitOnce(netloc, ":")[1]) ]

\* one field of a query string as parse_qs decodes it: '+' is a space
\* (inputs carry no %-escapes)
Unquote(s) == [i \in 1..Len(s) |-> IF s[i] = "+" THEN " " ELSE s[i]]

\* the (name, value) pairs parse_qs keeps, in order: fields without '=' and
\* fields with a blank value are dropped
RECURSIVE QueryPairs(_)
QueryPairs(fields) ==
    IF fields = <<>> THEN <<>>
    ELSE LET nv == SplitOnce(fields[1], "=")
         IN (IF Len(nv) = 2 /\ nv[2] # <<>>
             THEN << << Unquote(nv[1]), Unquote(nv[2]) >> >>
             ELSE <<>>) \o QueryPairs(Tail(fields))

\* name in parse_qs(query)
parse_qs_has(query, name) ==
    LET pairs == QueryPairs(Split(query, "&"))
    IN \E i \in 1..Len(pairs) : pairs[i][1] = name

\* parse_qs(query)[name][0]
parse_qs_first(query, name) ==
    LET pairs == QueryPairs(Split(query, "&"))
    IN pairs[CHOOSE i \in 1..Len(pairs) :
                 pairs[i][1] = name /\ \A j \in 1..(i-1) : pairs[j][1] # name][2]

(* extract_video_id *)

IdLen == 11

\* the character class [A-Za-z0-9_-]
IdChars == Chars(UpperLetters) \cup Chars(LowerLetters) \cup Chars(Digits)
               \cup {"_", "-"}

\* re.fullmatch(r"[A-Za-z0-9_-]{11}", part)
FullMatchId(part) == Len(part) = IdLen /\ \A i \in 1..Len(part) : part[i] \in IdChars

\* the alternatives of the group (?:(?:v=)|(?:be/)|(?:embed/)|(?:shorts/))
IdPrefixes == << S2Seq("v="), S2Seq("be/"), S2Seq("embed/"), S2Seq("shorts/") >>

\* the pattern of line 32 matches s at position i with alternative k
SearchMatchAt(s, i, k) ==
    LET p == IdPrefixes[k]
    IN /\ OccursAt(s, p, i)
       /\ i + Len(p) + IdLen - 1 <= Len(s)
       /\ \A j \in (i + Len(p))..(i + Len(p) + IdLen - 1) : s[j] \in IdChars

\* re.search(pattern, s): group(1) of the leftmost match, None without a match
SearchId(s) ==
    IF \E i \in 1..Len(s), k \in 1..Len(IdPrefixes) : SearchMatchAt(s, i, k)
    THEN LET i == CHOOSE i0 \in 1..Len(s) :
                      /\ \E k \in 1..Len(IdPrefixes) : SearchMatchAt(s, i0, k)
                      /\ \A j \in 1..(i0 - 1), k \in 1..Len(IdPrefixes) :
                             ~SearchMatchAt(s, j, k)
             k == CHOOSE k0 \in 1..Len(IdPrefixes) :
                      /\ SearchMatchAt(s, i, k0)
                      /\ \A j \in 1..(k0 - 1) : ~SearchMatchAt(s, i, j)
             start == i + Len(IdPrefixes[k])
         IN Some(SubSeq(s, start, start + IdLen - 1))
    ELSE None

Returned(v) == [ok |-> TRUE, value |-> v, error |-> "none"]
ValueError(msg) == [ok |-> FALSE, value |-> <<>>, error |-> msg]

NoUrlMsg == "Please provide a YouTube URL."
NoIdMsg == "Could not extract a video ID from the provided URL."

\* lines 27-30: the first path part that is an identifier, None without one
FirstIdPart(path_parts) ==
    IF \E i \in 1..Len(path_parts) : FullMatchId(path_parts[i])
    THEN Some(path_parts[CHOOSE i \in 1..Len(path_parts) :
                  /\ FullMatchId(path_parts[i])
                  /\ \A j \in 1..(i-1) : ~FullMatchId(path_parts[j])])
    ELSE None

\* lines 32-36
SearchOrRaise(u) ==
    IF SearchId(u).some THEN Returned(SearchId(u).val) ELSE ValueError(NoIdMsg)

extract_video_id(u) ==
    IF u = <<>> THEN ValueError(NoUrlMsg)
    ELSE LET parsed == urlparse(Strip(u))
         IN IF parsed.hostname = S2Seq("youtu.be") /\ parsed.path # <<>>
            THEN Returned(LStripChars(parsed.path, {"/"}))
            ELSE IF parsed.hostname # <<>> /\ Contains(parsed.hostname, S2Seq("youtube"))
            THEN IF /\ StartsWith(parsed.path, S2Seq("/watch"))
                    /\ parse_qs_has(parsed.query, <<"v">>)
                 THEN Returned(parse_qs_first(parsed.query, <<"v">>))
                 ELSE LET part == FirstIdPart(Split(parsed.path, "/"))
                      IN IF part.some THEN Returned(part.val) ELSE SearchOrRaise(u)
            ELSE SearchOrRaise(u)

(* parse_sections *)

EmptySections == [summary |-> <<>>, notes |-> <<>>, takeaways |-> <<>>]

\* the one character U+2022 (a bullet), which an ASCII module cannot spell
Bullet == "U+2022"

\* the argument of line.lstrip: hyphen, bullet, asterisk, digits, dot, space
BulletChars == {"-", Bullet, "*", ".", " "} \cup Chars(Digits)

\* sections[name].append(item)
Append_to(secs, name, item) == [secs EXCEPT ![name] = Append(@, item)]

\* ParseStep as it would be if the lines before the first heading were kept
\* as summary lines instead of discarded
ParseStep_keeps_preamble(st, raw_line) ==
    LET line == Strip(raw_line)
        lowered == Lower(line)
        remainder == SplitOnce(line, ":")
    IN IF line = <<>> THEN st
       ELSE IF StartsWith(lowered, S2Seq("summary"))
       THEN [ current |-> "summary",
              sections |-> IF Len(remainder) > 1 /\ Strip(remainder[2]) # <<>>
                           THEN Append_to(st.sections, "summary", Strip(remainder[2]))
                           ELSE st.sections ]
       ELSE IF StartsWith(lowered, S2Seq("notes"))
       THEN [ st EXCEPT !.current = "notes" ]
       ELSE IF Contains(lowered, S2Seq("takeaway"))
       THEN [ st EXCEPT !.current = "takeaways" ]
       ELSE IF st.current \in {"none", "summary"}
       THEN [ st EXCEPT !.sections = Append_to(@, "summary", line) ]
       ELSE [ st EXCEPT !.sections =
                  Append_to(@, st.current, Strip(LStripChars(line, BulletChars))) ]

\* lines 106-131: one iteration of the loop, on the cursor and the lists
ParseStep(st, raw_line) ==
    LET line == Strip(raw_line)
        lowered == Lower(line)
        remainder == SplitOnce(line, ":")
    IN IF line = <<>> THEN st
       ELSE IF StartsWith(lowered, S2Seq("summary"))
       THEN [ current |-> "summary",
              sections |-> IF Len(remainder) > 1 /\ Strip(remainder[2]) # <<>>
                           THEN Append_to(st.sections, "summary", Strip(remainder[2]))
                           ELSE st.sections ]
       ELSE IF StartsWith(lowered, S2Seq("notes"))
       THEN [ st EXCEPT !.current = "notes" ]
       ELSE IF Contains(lowered, S2Seq("takeaway"))
       THEN [ st EXCEPT !.current = "takeaways" ]
       ELSE IF st.current = "none" THEN st
       ELSE IF st.current = "summary"
       THEN [ st EXCEPT !.sections = Append_to(@, "summary", line) ]
       ELSE [ st EXCEPT !.sections =
                  Append_to(@, st.current, Strip(LStripChars(line, BulletChars))) ]

\* lines 133-134: the returned triple
SectionsResult(secs) ==
    [ summary_text |-> Join(<<" ">>, secs.summary),
      notes |-> secs.notes,
      takeaways |-> secs.takeaways ]

\* lines 105-131: the loop over the lines ls, from state st
RECURSIVE ParseLoop(_, _)
ParseLoop(st, ls) ==
    IF ls = <<>> THEN st ELSE ParseLoop(ParseStep(st, Head(ls)), Tail(ls))

parse_sections(t) ==
    SectionsResult(
        ParseLoop([current |-> "none", sections |-> EmptySections], SplitLines(t)).sections)

(* fetch_transcript_text, line 54 *)

\* " ".join(entry["text"] for entry in entries)
JoinEntries(es) == Join(<<" ">>, [i \in 1..Len(es) |-> es[i].text])

(* Initial values of the variables a specification leaves alone *)

EmptyContext ==
    [ video_title |-> None, summary |-> None, notes |-> None,
      takeaways |-> None, error |-> "None", url |-> <<>> ]

NoParts == [pre |-> 0, scheme |-> "", host |-> "", shape |-> "", id |-> "",
            trail |-> "", post |-> 0]

HandlerInit ==
    /\ method = "none" /\ form_url = <<>> /\ video_url = <<>> /\ api_key = None
    /\ context = EmptyContext /\ response = "none" /\ raised = "none"
    /\ video_id = None /\ transcripts = None /\ transcript = "none"
    /\ video_title = None /\ ai_output = None
    /\ trace = <<>>

ParserInit ==
    /\ text = <<>> /\ lines = <<>> /\ lineNo = 0 /\ current = "none"
    /\ sections = EmptySections /\ parse_result = None

ResolverInit == urlParts = NoParts /\ url = <<>> /\ resolved = None

handlerVars == << method, form_url, video_url, api_key, context, response, raised, video_id,
                  transcripts, transcript, video_title, ai_output, trace >>
parserVars == << text, lines, lineNo, current, sections, parse_result >>
resolverVars == << urlParts, url, resolved >>

\* all sequences over S of length at most n
SeqsUpTo(S, n) == UNION { [1..k -> S] : k \in 0..n }

(* The resolver on its own: extract_video_id applied to URLs made of a      *)
(* scheme, a host, a URL shape, an identifier, trailing noise and padding.  *)

MaxPad == 1

UrlSchemes == {"https://", "http://", ""}
UrlHosts == {"www.youtube.com", "m.youtube.com", "YouTube.com", "youtu.be",
             "www.youtube-nocookie.com", "example.com"}
UrlShapes == {"/watch?v=", "/", "/shorts/", "/embed/", "/watch?feature=share&v=",
              "/playlist?list="}
UrlIds == {"dQw4w9WgXcQ", "a-b_c1D2e3F", "abc", "dQw4w9WgXcQx", ""}
UrlTrails == {"", "?t=10", "&t=10", "/extra", "/", "#t=5", "&list=PL1",
              "?feature=share"}

Spaces(n) == [i \in 1..n |-> " "]

UrlOf(p) ==
    Spaces(p.pre) \o S2Seq(p.scheme \o p.host \o p.shape \o p.id \o p.trail)
        \o Spaces(p.post)

UrlInit ==
    /\ urlParts \in [pre : 0..MaxPad, scheme : UrlSchemes, host : UrlHosts,
                     shape : UrlShapes, id : UrlIds, trail : UrlTrails,
                     post : 0..MaxPad]
    /\ url = UrlOf(urlParts)
    /\ resolved = None
    /\ pc = "resolve_call"
    /\ HandlerInit /\ ParserInit /\ entries = <<>> /\ transcript_text = None

\* the call extract_video_id(url)
Resolve ==
    /\ pc = "resolve_call"
    /\ resolved' = Some(extract_video_id(url))
    /\ pc' = "resolve_return"
    /\ UNCHANGED << handlerVars, parserVars, transcript_text, entries, urlParts, url >>

UrlNext == Resolve

SpecUrl == UrlInit /\ [][UrlNext]_vars

(* The reply parser on its own: parse_sections applied, line by line, to    *)
(* replies made of at most MaxLines lines of a pool.                        *)

MaxLines == 3

ExampleReply == S2Seq("Summary: A. B.\nNotes\n- x\n- y\nKey takeaways\n- z")

LinePool == { S2Seq("Summary: A. B."), S2Seq("SUMMARY"), S2Seq("Notes"),
              S2Seq("Key takeaways:"), S2Seq("- x"), << Bullet >> \o S2Seq(" 2. y"),
              S2Seq("  ") }

Replies == { Join(<< "\n" >>, ls) : ls \in SeqsUpTo(LinePool, MaxLines) }
               \cup { ExampleReply }

ParseInit ==
    /\ text \in Replies
    /\ lines = <<>> /\ lineNo = 0 /\ current = "none"
    /\ sections = EmptySections /\ parse_result = None
    /\ pc = "parse_call"
    /\ HandlerInit /\ ResolverInit /\ entries = <<>> /\ transcript_text = None

\* lines 102-105: the locals and text.splitlines()
ParseBegin ==
    /\ pc = "parse_call"
    /\ lines' = SplitLines(text)
    /\ lineNo' = 0
    /\ current' = "none"
    /\ sections' = EmptySections
    /\ pc' = "parse_loop"
    /\ UNCHANGED << handlerVars, resolverVars, transcript_text, entries, text,
                    parse_result >>

\* lines 105-131: one iteration of the loop
ParseLine ==
    /\ pc = "parse_loop"
    /\ lineNo < Len(lines)
    /\ LET st == ParseStep([current |-> current, sections |-> sections],
                           lines[lineNo + 1])
       IN /\ current' = st.current
          /\ sections' = st.sections
    /\ lineNo' = lineNo + 1
    /\ UNCHANGED << pc, handlerVars, resolverVars, transcript_text, entries, text,
                    lines, parse_result >>

\* lines 133-134
ParseReturn ==
    /\ pc = "parse_loop"
    /\ lineNo = Len(lines)
    /\ parse_result' = Some(SectionsResult(sections))
    /\ pc' = "parse_return"
    /\ UNCHANGED << handlerVars, resolverVars, transcript_text, entries, text,
                    lines, lineNo, current, sections >>

ParseNext == ParseBegin \/ ParseLine \/ ParseReturn

SpecParse == ParseInit /\ [][ParseNext]_vars

(* The concatenation of fetch_transcript_text on its own, applied to at     *)
(* most MaxSegs segments of a pool.                                         *)

MaxSegs == 3

SegmentTexts == { S2Seq("Hello "), S2Seq(" world"), <<>>, S2Seq("  "), S2Seq("a") }

Segments == { [text |-> t] : t \in SegmentTexts }

JoinInit ==
    /\ entries \in SeqsUpTo(Segments, MaxSegs)
    /\ transcript_text = None
    /\ pc = "join_call"
    /\ HandlerInit /\ ParserInit /\ ResolverInit

\* line 54
JoinReturn ==
    /\ pc = "join_call"
    /\ transcript_text' = Some(JoinEntries(entries))
    /\ pc' = "join_return"
    /\ UNCHANGED << handlerVars, parserVars, resolverVars, entries >>

JoinNext == JoinReturn

SpecJoin == JoinInit /\ [][JoinNext]_vars

(* The request handler index(), one request from its arrival to the         *)
(* response, with the calls it makes to extract_video_id,                   *)
(* fetch_transcript_text, fetch_video_title, call_openai and parse_sections *)

\* request.form values submitted
FormUrls == { <<>>,
              S2Seq("not a url"),
              S2Seq(" https://youtu.be/dQw4w9WgXcQ "),
              S2Seq("https://www.youtube.com/watch?v=dQw4w9WgXcQ&t=10"),
              S2Seq("https://youtu.be/abc") }

\* values of OPENAI_API_KEY: unset, set to the empty string, set to a key
ApiKeys == { None, Some(""), Some("sk-test") }

\* what list_transcripts finds for the video, in English
Listings == [manual : BOOLEAN, generated : BOOLEAN]

\* what the fetch of a manual and of a generated transcript can return
ManualTracks == { << [text |-> S2Seq("Hello ")], [text |-> S2Seq(" world")] >>, <<>> }
GeneratedTracks == { << [text |-> S2Seq("hello word")] >>, <<>> }
TrackEntries(track) == IF track = "manual" THEN ManualTracks ELSE GeneratedTracks

\* exceptions the transcript service raises when listing and when fetching
ListExceptions == {"TranscriptsDisabled", "VideoUnavailable", "ConnectionError"}
FetchExceptions == {"KeyError", "YouTubeRequestFailed", "ConnectionError"}

\* titles the oEmbed endpoint returns
Titles == {"A video"}
DefaultTitle == "YouTube Video"

\* response.output of the completion: items that are an output_text, or that
\* carry content blocks, or neither
TextItem(t) == [type |-> "output_text", text |-> t, has_content |-> FALSE, content |-> <<>>]
MessageItem(blocks) == [type |-> "message", text |-> <<>>, has_content |-> TRUE, content |-> blocks]
OtherItem == [type |-> "function_call", text |-> <<>>, has_content |-> FALSE, content |-> <<>>]
TextBlock(t) == [type |-> "output_text", text |-> t]
RefusalBlock == [type |-> "refusal", text |-> <<>>]

Outputs ==
    { << MessageItem(<< TextBlock(ExampleReply) >>) >>,
      << OtherItem, MessageItem(<< TextBlock(S2Seq("Notes\n- x")), RefusalBlock >>) >>,
      << TextItem(S2Seq("Summary")), TextItem(S2Seq("- only a heading")) >>,
      << TextItem(S2Seq(" The video is about cats. \n")) >>,
      << MessageItem(<< RefusalBlock >>) >> }

\* lines 161-164 (the apostrophe of the source is U+2019)
NoTranscriptMsg == "This video doesn't have an available English transcript. Try another video."
NoKeyMsg == "OPENAI_API_KEY environment variable is not set."
FailedMsg == "Failed to generate notes using OpenAI."

\* the exception classes caught on line 55
CaughtByAcquirer == {"TranscriptsDisabled", "NoTranscriptFound", "KeyError", "ValueError"}

Call(name, ok) == [call |-> name, ok |-> ok]

Init ==
    /\ pc = "idle"
    /\ api_key \in ApiKeys
    /\ method = "none" /\ form_url = <<>> /\ video_url = <<>>
    /\ context = EmptyContext /\ response = "none" /\ raised = "none"
    /\ video_id = None /\ transcripts = None /\ transcript = "none"
    /\ transcript_text = None /\ video_title = None /\ ai_output = None
    /\ trace = <<>>
    /\ entries = <<>>
    /\ ParserInit /\ ResolverInit

pureVars == << text, lines, lineNo, current, sections, urlParts, url, resolved >>

\* render_template("index.html", **context)
Render(ctx) ==
    /\ context' = ctx
    /\ response' = "page"
    /\ raised' = "none"
    /\ pc' = "done"

\* an exception that no except clause of index() catches
Unhandled(exc) ==
    /\ response' = "unhandled"
    /\ raised' = exc
    /\ pc' = "done"
    /\ UNCHANGED context

\* lines 139-150 and 192: a request arrives
Request(m, u) ==
    /\ pc = "idle"
    /\ method' = m
    /\ IF m = "POST"
       THEN /\ form_url' = u
            /\ video_url' = Strip(u)
            /\ context' = [EmptyContext EXCEPT !.url = Strip(u)]
            /\ pc' = "extract"
            /\ UNCHANGED << response, raised >>
       ELSE /\ UNCHANGED << form_url, video_url >>
            /\ Render(EmptyContext)
    /\ UNCHANGED << api_key, video_id, transcripts, transcript, transcript_text,
                    video_title, ai_output, trace, entries, parse_result, pureVars >>

\* line 153, and lines 156-158 when it raises
ExtractVideoId ==
    /\ pc = "extract"
    /\ \E r \in { extract_video_id(video_url) } :
          /\ trace' = Append(trace, Call("extract_video_id", r.ok))
          /\ IF r.ok
             THEN /\ video_id' = Some(r.value)
                  /\ pc' = "list"
                  /\ UNCHANGED << context, response, raised >>
             ELSE /\ Render([context EXCEPT !.error = r.error])
                  /\ UNCHANGED video_id
    /\ UNCHANGED << method, form_url, video_url, api_key, transcripts, transcript,
                    transcript_text, video_title, ai_output, entries, parse_result,
                    pureVars >>

\* an exception raised inside the try of fetch_transcript_text: line 55 turns
\* it into the empty string, or it leaves the function and index() with it
AcquirerRaises(exc) ==
    IF exc \in CaughtByAcquirer
    THEN /\ transcript_text' = Some(<<>>)
         /\ pc' = "title"
         /\ UNCHANGED << context, response, raised >>
    ELSE /\ Unhandled(exc)
         /\ UNCHANGED transcript_text

\* line 48
ListTranscripts ==
    /\ pc = "list"
    /\ \/ \E found \in Listings :
            /\ transcripts' = Some(found)
            /\ trace' = Append(trace, Call("list_transcripts", TRUE))
            /\ pc' = "find_manual"
            /\ UNCHANGED << context, response, raised, transcript_text >>
       \/ \E exc \in ListExceptions :
            /\ trace' = Append(trace, Call("list_transcripts", FALSE))
            /\ AcquirerRaises(exc)
            /\ UNCHANGED transcripts
    /\ UNCHANGED << method, form_url, video_url, api_key, video_id, transcript, video_title,
                    ai_output, entries, parse_result, pureVars >>

\* find_manually_created_transcript as it would be if the manual lookup never
\* found anything
find_manually_created_transcript_never(found) == FALSE

\* transcripts.find_manually_created_transcript(['en']) finds a transcript
find_manually_created_transcript(found) == found.manual

\* transcripts.find_generated_transcript(['en']) finds a transcript
find_generated_transcript(found) == found.generated

\* FindManual as it would be if a failed manual lookup were not followed by the
\* lookup of a generated transcript
FindManual_no_fallback ==
    /\ pc = "find_manual"
    /\ IF find_manually_created_transcript(transcripts.val)
       THEN /\ transcript' = "manual"
            /\ trace' = Append(trace, Call("find_manually_created_transcript", TRUE))
            /\ pc' = "fetch"
            /\ UNCHANGED << context, response, raised, transcript_text >>
       ELSE /\ trace' = Append(trace, Call("find_manually_created_transcript", FALSE))
            /\ AcquirerRaises("NoTranscriptFound")
            /\ UNCHANGED transcript
    /\ UNCHANGED << method, form_url, video_url, api_key, video_id, transcripts, video_title,
                    ai_output, entries, parse_result, pureVars >>

\* lines 49-51
FindManual ==
    /\ pc = "find_manual"
    /\ IF find_manually_created_transcript(transcripts.val)
       THEN /\ transcript' = "manual"
            /\ trace' = Append(trace, Call("find_manually_created_transcript", TRUE))
            /\ pc' = "fetch"
       ELSE /\ trace' = Append(trace, Call("find_manually_created_transcript", FALSE))
            /\ pc' = "find_generated"
            /\ UNCHANGED transcript
    /\ UNCHANGED << method, form_url, video_url, api_key, context, response, raised, video_id,
                    transcripts, transcript_text, video_title, ai_output, entries,
                    parse_result, pureVars >>

\* line 52
FindGenerated ==
    /\ pc = "find_generated"
    /\ IF find_generated_transcript(transcripts.val)
       THEN /\ transcript' = "generated"
            /\ trace' = Append(trace, Call("find_generated_transcript", TRUE))
            /\ pc' = "fetch"
            /\ UNCHANGED << context, response, raised, transcript_text >>
       ELSE /\ trace' = Append(trace, Call("find_generated_transcript", FALSE))
            /\ AcquirerRaises("NoTranscriptFound")
            /\ UNCHANGED transcript
    /\ UNCHANGED << method, form_url, video_url, api_key, video_id, transcripts, video_title,
                    ai_output, entries, parse_result, pureVars >>

\* lines 53-54
FetchTranscript ==
    /\ pc = "fetch"
    /\ \/ \E es \in TrackEntries(transcript) :
            /\ entries' = es
            /\ transcript_text' = Some(JoinEntries(es))
            /\ trace' = Append(trace, Call("fetch", TRUE))
            /\ pc' = "title"
            /\ UNCHANGED << context, response, raised >>
       \/ \E exc \in FetchExceptions :
            /\ trace' = Append(trace, Call("fetch", FALSE))
            /\ AcquirerRaises(exc)
            /\ UNCHANGED entries
    /\ UNCHANGED << method, form_url, video_url, api_key, video_id, transcripts, transcript,
                    video_title, ai_output, parse_result, pureVars >>

\* line 155: fetch_video_title, lines 59-70, never raises
FetchVideoTitle ==
    /\ pc = "title"
    /\ \/ \E t \in Titles :
            /\ video_title' = Some(t)
            /\ trace' = Append(trace, Call("fetch_video_title", TRUE))
       \/ /\ video_title' = Some(DefaultTitle)
          /\ trace' = Append(trace, Call("fetch_video_title", FALSE))
    /\ pc' = "check"
    /\ UNCHANGED << method, form_url, video_url, api_key, context, response, raised, video_id,
                    transcripts, transcript, transcript_text, ai_output, entries,
                    parse_result, pureVars >>

\* transcript_unavailable as it would be if the emptiness test were missing
transcript_unavailable_never(t) == FALSE

\* line 160: not transcript_text
transcript_unavailable(t) == t = <<>>

\* lines 160-165
CheckTranscript ==
    /\ pc = "check"
    /\ IF transcript_unavailable(transcript_text.val)
       THEN Render([context EXCEPT !.error = NoTranscriptMsg])
       ELSE /\ pc' = "openai_key"
            /\ UNCHANGED << context, response, raised >>
    /\ UNCHANGED << method, form_url, video_url, api_key, video_id, transcripts, transcript,
                    transcript_text, video_title, ai_output, trace, entries,
                    parse_result, pureVars >>

\* key_missing as it would be if the credential test were missing
key_missing_never(key) == FALSE

\* line 75: not api_key
key_missing(key) == ~key.some \/ key.val = ""

\* lines 74-76 of call_openai, and lines 179-181 when it raises
CheckApiKey ==
    /\ pc = "openai_key"
    /\ IF key_missing(api_key)
       THEN /\ trace' = Append(trace, Call("call_openai", FALSE))
            /\ Render([context EXCEPT !.error = NoKeyMsg])
       ELSE /\ trace' = Append(trace, Call("call_openai", TRUE))
            /\ pc' = "openai_client"
            /\ UNCHANGED << context, response, raised >>
    /\ UNCHANGED << method, form_url, video_url, api_key, video_id, transcripts, transcript,
                    transcript_text, video_title, ai_output, entries, parse_result,
                    pureVars >>

\* line 78
CreateClient ==
    /\ pc = "openai_client"
    /\ trace' = Append(trace, Call("OpenAI", TRUE))
    /\ pc' = "openai_create"
    /\ UNCHANGED << method, form_url, video_url, api_key, context, response, raised, video_id,
                    transcripts, transcript, transcript_text, video_title, ai_output,
                    entries, parse_result, pureVars >>

\* lines 90-97: the texts collected from response.output
RECURSIVE BlockTexts(_)
BlockTexts(blocks) ==
    IF blocks = <<>> THEN <<>>
    ELSE (IF Head(blocks).type = "output_text" THEN << Head(blocks).text >> ELSE <<>>)
             \o BlockTexts(Tail(blocks))

RECURSIVE Contents(_)
Contents(output) ==
    IF output = <<>> THEN <<>>
    ELSE LET item == Head(output)
         IN (IF item.type = "output_text" THEN << item.text >>
             ELSE IF item.has_content THEN BlockTexts(item.content)
             ELSE <<>>) \o Contents(Tail(output))

\* line 98
ResponseText(output) == Strip(Join(<< "\n" >>, Contents(output)))

\* lines 80-98 of call_openai, and lines 179-181 when the request raises
CreateResponse ==
    /\ pc = "openai_create"
    /\ \/ \E output \in Outputs :
            /\ ai_output' = Some(ResponseText(output))
            /\ trace' = Append(trace, Call("responses.create", TRUE))
            /\ pc' = "parse"
            /\ UNCHANGED << context, response, raised >>
       \/ /\ trace' = Append(trace, Call("responses.create", FALSE))
          /\ Render([context EXCEPT !.error = FailedMsg])
          /\ UNCHANGED ai_output
    /\ UNCHANGED << method, form_url, video_url, api_key, video_id, transcripts, transcript,
                    transcript_text, video_title, entries, parse_result, pureVars >>

\* line 178
ParseReply ==
    /\ pc = "parse"
    /\ parse_result' = Some(parse_sections(ai_output.val))
    /\ trace' = Append(trace, Call("parse_sections", TRUE))
    /\ pc' = "update"
    /\ UNCHANGED << method, form_url, video_url, api_key, context, response, raised, video_id,
                    transcripts, transcript, transcript_text, video_title, ai_output,
                    entries, pureVars >>

\* line 186: summary_text or ai_output
summary_shown(summary_text, raw) == IF summary_text # <<>> THEN summary_text ELSE raw

\* lines 183-192
RenderNotes ==
    /\ pc = "update"
    /\ Render([context EXCEPT
                  !.video_title = video_title,
                  !.summary = Some(summary_shown(parse_result.val.summary_text,
                                                 ai_output.val)),
                  !.notes = Some(parse_result.val.notes),
                  !.takeaways = Some(parse_result.val.takeaways)])
    /\ UNCHANGED << method, form_url, video_url, api_key, video_id, transcripts, transcript,
                    transcript_text, video_title, ai_output, trace, entries,
                    parse_result, pureVars >>

Next ==
    \/ \E m \in {"GET", "POST"}, u \in FormUrls : Request(m, u)
    \/ ExtractVideoId
    \/ ListTranscripts
    \/ FindManual
    \/ FindGenerated
    \/ FetchTranscript
    \/ FetchVideoTitle
    \/ CheckTranscript
    \/ CheckApiKey
    \/ CreateClient
    \/ CreateResponse
    \/ ParseReply
    \/ RenderNotes

Spec == Init /\ [][Next]_vars

(* Properties *)

\* positions of the calls named name in the trace
Positions(name) == { i \in 1..Len(trace) : trace[i].call = name }

Called(name) == Positions(name) # {}

Happened(name, ok) == \E i \in 1..Len(trace) : trace[i] = Call(name, ok)

\* C1: every POST request ends with the rendered page, the submitted URL
\* shown again and, unless the notes are shown, the error message set; no
\* failure leaves the handler as an unhandled exception.
C1_FailuresRendered ==
    (pc = "done" /\ method = "POST") =>
        /\ response = "page"
        /\ raised = "none"
        /\ video_url = Strip(form_url)
        /\ context.url = video_url
        /\ (~context.summary.some => context.error # "None")

\* the acquirer has returned the empty string
Unavailable == transcript_text = Some(<<>>)

AcquirerCalls == {"list_transcripts", "find_manually_created_transcript",
                  "find_generated_transcript", "fetch"}

C3_ManualPreferred ==
    /\ (transcripts.some /\ transcripts.val.manual) =>
           /\ transcript # "generated"
           /\ ~Called("find_generated_transcript")
           /\ Happened("fetch", TRUE) =>
                  /\ transcript = "manual"
                  /\ entries \in ManualTracks
                  /\ transcript_text = Some(JoinEntries(entries))
    /\ \A j \in Positions("find_generated_transcript") :
           \E i \in 1..(j-1) : trace[i] = Call("find_manually_created_transcript", FALSE)

\* both transcripts exist and the text of the manual one was returned
C3_Witness ==
    /\ transcripts = Some([manual |-> TRUE, generated |-> TRUE])
    /\ transcript = "manual"
    /\ Happened("fetch", TRUE)
    /\ transcript_text = Some(S2Seq("Hello   world"))

\* C4: with the credential absent, no completion client is created and no
\* completion request is issued, and a request that reaches the generator
\* ends with the page showing the configuration error and no notes.
C4_MissingKeyShortCircuits ==
    ~api_key.some =>
        /\ ~Called("OpenAI")
        /\ ~Called("responses.create")
        /\ Called("call_openai") =>
               /\ pc = "done"
               /\ response = "page"
               /\ context.error = NoKeyMsg
               /\ ~context.summary.some

\* the generator was called without a credential
C4_Witness ==
    /\ ~api_key.some
    /\ Happened("call_openai", FALSE)
    /\ response = "page"
    /\ context.error = NoKeyMsg
    /\ transcript_text.some /\ transcript_text.val # <<>>

\* a line the parser takes for a section heading
IsHeading(raw_line) ==
    LET lowered == Lower(Strip(raw_line))
    IN \/ StartsWith(lowered, S2Seq("summary"))
       \/ StartsWith(lowered, S2Seq("notes"))
       \/ Contains(lowered, S2Seq("takeaway"))

HeadingRecognized(t) ==
    \E i \in 1..Len(SplitLines(t)) : IsHeading(SplitLines(t)[i])

\* C5: the summary shown is the whole raw reply when, and only when, no
\* section heading is recognized in the reply.
C5_RawOnlyWithoutHeadings ==
    (pc = "done" /\ context.summary.some) =>
        ((context.summary.val = ai_output.val) <=> ~HeadingRecognized(ai_output.val))

\* what a line is to the parser
LineKind(raw_line) ==
    LET lowered == Lower(Strip(raw_line))
    IN IF Strip(raw_line) = <<>> THEN "blank"
       ELSE IF StartsWith(lowered, S2Seq("summary")) THEN "summary"
       ELSE IF StartsWith(lowered, S2Seq("notes")) THEN "notes"
       ELSE IF Contains(lowered, S2Seq("takeaway")) THEN "takeaways"
       ELSE "content"

SectionNames == {"summary", "notes", "takeaways"}

\* what each of the lines is to the parser
Kinds(ls) == [i \in 1..Len(ls) |-> LineKind(ls[i])]

\* the section of the most recent heading among the first i lines, whose
\* kinds are ks
CursorAfter(ks, i) ==
    LET H == { j \in 1..i : ks[j] \in SectionNames }
    IN IF H = {} THEN "none"
       ELSE ks[CHOOSE j \in H : \A k \in H : k <= j]

\* the text after the first colon of a line, stripped
AfterColon(raw_line) ==
    LET line == Strip(raw_line)
        c == Find(line, ":")
    IN IF c = 0 THEN <<>> ELSE Strip(SubSeq(line, c + 1, Len(line)))

\* what line i gives to section name: a content line gives itself (without
\* its bullet markers for notes and takeaways) to the section of the most
\* recent heading, a Summary heading gives the text after its colon
Given(ls, ks, i, name) ==
    IF ks[i] = "content" /\ CursorAfter(ks, i) = name
    THEN << IF name = "summary" THEN Strip(ls[i])
            ELSE Strip(LStripChars(Strip(ls[i]), BulletChars)) >>
    ELSE IF ks[i] = "summary" /\ name = "summary" /\ AfterColon(ls[i]) # <<>>
    THEN << AfterColon(ls[i]) >>
    ELSE <<>>

\* the content of section name after the first i lines, in input order
RECURSIVE Accumulated(_, _, _, _)
Accumulated(ls, ks, i, name) ==
    IF i = 0 THEN <<>> ELSE Accumulated(ls, ks, i - 1, name) \o Given(ls, ks, i, name)

\* the three lists after the first i lines
AccumulatedSections(ls, i) ==
    CHOOSE secs \in { [ name \in SectionNames |-> Accumulated(ls, ks, i, name) ] :
                          ks \in { Kinds(ls) } } : TRUE

\* C6: the parser is a single pass over the lines with a cursor: after each
\* line the cursor is the section of the most recent heading and each list
\* holds, in input order, the content lines met under that heading (lines
\* before the first heading and heading lines are not content, except the
\* text after the colon of a Summary line); the reply of the example yields
\* summary "A. B.", notes x, y and takeaways z.
C6_ParserStateMachine ==
    /\ pc = "parse_loop" =>
           /\ lineNo <= Len(lines)
           /\ \A ks \in { Kinds(lines) } : current = CursorAfter(ks, lineNo)
           /\ sections = AccumulatedSections(lines, lineNo)
    /\ pc = "parse_return" =>
           /\ lineNo = Len(lines)
           /\ parse_result.val.summary_text = Join(<< " " >>, sections.summary)
           /\ parse_result.val.notes = sections.notes
           /\ parse_result.val.takeaways = sections.takeaways
           /\ sections = AccumulatedSections(lines, Len(lines))
           /\ text = ExampleReply =>
                  parse_result.val = [ summary_text |-> S2Seq("A. B."),
                                       notes |-> << <<"x">>, <<"y">> >>,
                                       takeaways |-> << <<"z">> >> ]

\* the reply of the example has been parsed
C6_Witness ==
    /\ pc = "parse_return"
    /\ text = ExampleReply
    /\ Len(lines) = 6
    /\ parse_result.val.notes = << <<"x">>, <<"y">> >>

YouTubeHosts == {"www.youtube.com", "m.youtube.com", "YouTube.com", "youtu.be",
                 "www.youtube-nocookie.com"}

ValidIds == { i \in UrlIds : FullMatchId(S2Seq(i)) }

\* a URL of a supported shape with an identifier, followed by noise that
\* ends the identifier: path or fragment noise, or one more query parameter
SupportedShape(p) ==
    /\ p.host \in YouTubeHosts
    /\ p.id \in ValidIds
    /\ \/ /\ p.host = "youtu.be" /\ p.shape = "/"
          /\ p.trail \in {"", "?t=10", "/extra", "/", "#t=5", "?feature=share"}
       \/ /\ p.host # "youtu.be" /\ p.shape \in {"/shorts/", "/embed/"}
          /\ p.trail \in {"", "?t=10", "/extra", "/", "#t=5", "?feature=share"}
       \/ /\ p.host # "youtu.be" /\ p.shape = "/watch?v="
          /\ p.trail \in {"", "&t=10", "#t=5", "&list=PL1"}

\* C7: for every URL of a supported shape carrying an 11-character
\* identifier, with padding and trailing noise, the resolver returns exactly
\* that identifier.
C7_SupportedShapesResolve ==
    (pc = "resolve_return" /\ SupportedShape(urlParts)) =>
        resolved.val = Returned(S2Seq(urlParts.id))

\* C8: whatever the resolver returns is an identifier of exactly 11
\* characters of [A-Za-z0-9_-] taken from a URL on a YouTube host; every
\* other input is rejected with ValueError.
C8_OnlyValidatedIds ==
    (pc = "resolve_return" /\ resolved.val.ok) =>
        /\ FullMatchId(resolved.val.value)
        /\ urlParts.host \in YouTubeHosts
        /\ urlParts.id \in ValidIds

\* the texts of the segments that are not blank, stripped
RECURSIVE KeptTexts(_)
KeptTexts(es) ==
    IF es = <<>> THEN <<>>
    ELSE (IF Strip(Head(es).text) = <<>> THEN <<>> ELSE << Strip(Head(es).text) >>)
             \o KeptTexts(Tail(es))

\* C9: the transcript text is the texts of the segments that are not blank,
\* joined with single spaces, without leading or trailing whitespace, so that
\* "Hello " and " world" give "Hello world".
C9_NormalizedJoin ==
    pc = "join_return" => transcript_text.val = Strip(Join(<< " " >>, KeptTexts(entries)))

\* the stage a call belongs to: 1 the resolver, 2 the acquirer (and the title
\* fetch that follows it), 3 the generator
StageOf(name) ==
    IF name = "extract_video_id" THEN 1
    ELSE IF name \in AcquirerCalls \cup {"fetch_video_title"} THEN 2
    ELSE 3

ExternalCalls == {"list_transcripts", "fetch", "fetch_video_title", "responses.create"}

\* C10: within a request the stages run in the order resolver, acquirer,
\* generator and never go back; each external call is made at most once; the
\* completion is requested only after the resolution succeeded and the
\* acquirer returned a transcript that is not empty; after a stage has
\* failed no later stage runs.
C10_StagesInOrder ==
    /\ \A i, j \in 1..Len(trace) :
           i < j => StageOf(trace[i].call) <= StageOf(trace[j].call)
    /\ \A name \in ExternalCalls : Cardinality(Positions(name)) <= 1
    /\ Cardinality(Positions("extract_video_id")) <= 1
    /\ Called("responses.create") =>
           /\ Happened("extract_video_id", TRUE)
           /\ video_id.some
           /\ Happened("fetch", TRUE)
           /\ transcript_text.some
           /\ transcript_text.val # <<>>
    /\ Happened("extract_video_id", FALSE) => Len(trace) = 1
    /\ (Unavailable \/ raised # "none") =>
           \A i \in 1..Len(trace) : StageOf(trace[i].call) < 3
    /\ (Happened("call_openai", FALSE) \/ Happened("responses.create", FALSE)) =>
           /\ ~Called("parse_sections")
           /\ ~trace[Len(trace)].ok
           /\ pc = "done"

\* a request went through the three stages and shows its notes
C10_Witness ==
    /\ pc = "done"
    /\ Happened("responses.create", TRUE)
    /\ Len(trace) = 10
    /\ context.summary = Some(S2Seq("A. B."))

====
